---- MODULE Spec2Model ----
(***************************************************************************)
(* Model of udp_servo_control.c: a main thread that drives two servo       *)
(* channels at a fixed rate from a shared throttle/rudder demand, and a    *)
(* comms thread that receives UDP datagrams, parses them with              *)
(* strtok/strtod and publishes the demand under a mutex.                   *)
(*                                                                         *)
(* Numbers: a C double demand is kept as an integer number of tenths       *)
(* (Scale), a pulse length as an integer number of tenths of a             *)
(* microsecond.  Datagrams are sequences of one-character strings and      *)
(* carry at most one fractional digit per field.                           *)
(***************************************************************************)
EXTENDS Integers, Sequences, FiniteSets, TLC

\* ------------------------------------------------------------------ bounds
\* Longest datagram generated over Alphabet (every shorter one is included).
MaxLen == 3
\* How far beyond [0,100] and [-100,100] the demands drawn for the mapping go.
DemandMargin == 2

\* ------------------------------------------------------- program constants
Scale == 10
THROTTLE_SERVO == 0
RUDDER_SERVO == 1
THROTTLE_MIN_PULSE_LENGTH_USEC == 900 * Scale
THROTTLE_MAX_PULSE_LENGTH_USEC == 2100 * Scale
RUDDER_MIN_PULSE_LENGTH_USEC == 900 * Scale
RUDDER_MAX_PULSE_LENGTH_USEC == 2100 * Scale
THROTTLE_RANGE_USEC == THROTTLE_MAX_PULSE_LENGTH_USEC - THROTTLE_MIN_PULSE_LENGTH_USEC
RUDDER_RANGE_USEC == RUDDER_MAX_PULSE_LENGTH_USEC - RUDDER_MIN_PULSE_LENGTH_USEC
RUDDER_CENTRE_PULSE_LENGTH_USEC == (RUDDER_MAX_PULSE_LENGTH_USEC - RUDDER_MIN_PULSE_LENGTH_USEC) \div 2 + RUDDER_MIN_PULSE_LENGTH_USEC
\* sizeof(buffer) in commsThread
BufSize == 20
\* battery threshold 6.0 V, in tenths of a volt
BattThreshold == 60

\* ------------------------------------------------------------ C strings
Min(S) == CHOOSE x \in S : \A y \in S : x <= y

Digits == <<"0", "1", "2", "3", "4", "5", "6", "7", "8", "9">>
DigitChars == {Digits[i] : i \in 1..10}
DigitVal(c) == (CHOOSE i \in 1..10 : Digits[i] = c) - 1
SpaceChars == {" "}
delim == ","

\* from + strspn(s + from, accept): index of the first character at or after
\* position from that is not in accept, Len(s)+1 when there is none
strspn(s, from, accept) ==
    LET stop == {i \in from..Len(s) : s[i] \notin accept}
    IN IF stop = {} THEN Len(s) + 1 ELSE Min(stop)

\* from + strcspn(s + from, reject): index of the first character at or after
\* position from that is in reject, Len(s)+1 when there is none
strcspn(s, from, reject) ==
    LET stop == {i \in from..Len(s) : s[i] \in reject}
    IN IF stop = {} THEN Len(s) + 1 ELSE Min(stop)

RECURSIVE DigitsVal(_)
DigitsVal(ds) ==
    IF ds = <<>> THEN 0
    ELSE 10 * DigitsVal(SubSeq(ds, 1, Len(ds) - 1)) + DigitVal(ds[Len(ds)])

\* strtod(nptr, &eptr) on a non-NULL string: skips white space, takes an
\* optional sign, digits, an optional point and digits; val is the value in
\* tenths, end the number of characters consumed (eptr - nptr), 0 and value 0
\* when no conversion is performed.
strtod(s) ==
    LET p0 == strspn(s, 1, SpaceChars)
        hasSign == p0 <= Len(s) /\ s[p0] \in {"+", "-"}
        neg == p0 <= Len(s) /\ s[p0] = "-"
        p1 == IF hasSign THEN p0 + 1 ELSE p0
        p2 == strspn(s, p1, DigitChars)
        hasPoint == p2 <= Len(s) /\ s[p2] = "."
        p3 == IF hasPoint THEN strspn(s, p2 + 1, DigitChars) ELSE p2
        intDigits == SubSeq(s, p1, p2 - 1)
        fracDigits == IF hasPoint THEN SubSeq(s, p2 + 1, p3 - 1) ELSE <<>>
        mag == DigitsVal(intDigits) * Scale
               + (IF fracDigits = <<>> THEN 0 ELSE DigitVal(fracDigits[1]))
    IN IF intDigits = <<>> /\ fracDigits = <<>>
       THEN [val |-> 0, end |-> 0]
       ELSE [val |-> IF neg THEN 0 - mag ELSE mag, end |-> p3 - 1]

\* strtok(str, ","): skips leading delimiters, returns NULL when nothing is
\* left, else the token up to the next delimiter; rest is what a following
\* strtok(NULL, ",") scans.
strtok(s) ==
    LET b == strspn(s, 1, {delim})
        e == strcspn(s, b, {delim})
    IN IF b > Len(s)
       THEN [isNull |-> TRUE, str |-> <<>>, rest |-> <<>>]
       ELSE [isNull |-> FALSE, str |-> SubSeq(s, b, e - 1),
             rest |-> SubSeq(s, e + 1, Len(s))]

\* ------------------------------------------------------------- datagrams
Alphabet == {"0", ","}
Generated == UNION {[1..n -> Alphabet] : n \in 0..MaxLen}
P_0_0 == <<"0", ",", "0">>
P_100_100 == <<"1", "0", "0", ",", "1", "0", "0">>
P_50 == <<"5", "0">>
P_blank == <<" ">>
P_abc_def == <<"a", "b", "c", ",", "d", "e", "f">>
P_50_abc == <<"5", "0", ",", "a", "b", "c">>
P_75_m20 == <<"7", "5", ".", "0", ",", "-", "2", "0", ".", "0">>
P_150_m300 == <<"1", "5", "0", ",", "-", "3", "0", "0">>
P_extra == <<"1", "0", "0", ",", "1", "0", "0", ",", "0">>
P_lead == <<",", "1", "0", "0", ",", "1", "0", "0">>
P_long == P_100_100 \o <<",", "0", ",", "0", ",", "0", ",", "0", ",", "0", ",", "0", ",", "0">>
Payloads == Generated \cup {P_0_0, P_100_100, P_50, P_blank, P_abc_def, P_50_abc,
                            P_75_m20, P_150_m300, P_extra, P_lead, P_long}

\* values an undefined strtod(NULL) may hand back when it does not fault
UBValues == {0}
\* battery readings, tenths of a volt
BattReadings == {0, 59, 60}

\* ----------------------------------------------------------------- state
VARIABLES
    mainPc,            \* position of main()
    commsPc,           \* position of commsThread()
    exitStatus,        \* "running", "0", "-1" or "SIGSEGV"
    handlerInstalled,  \* signal(SIGINT, __signal_handler) has been called
    running,           \* static int running
    throttle, rudder,  \* the shared globals
    mutex,             \* "free", "main" or "comms"
    udpsocket,         \* "none", "open", "bound" or "closed"
    nbytes, buffer,    \* commsThread locals: recvfrom result and bytes received
    c_tmpThrottle, c_tmpRudder,   \* commsThread locals tmpThrottle, tmpRudder
    m_tmpThrottle, m_tmpRudder,   \* main locals tmpThrottle, tmpRudder
    batt,              \* last rc_adc_batt() reading
    servoInit,         \* rc_servo_init() has succeeded
    rail,              \* servo power rail, 0 or 1
    lastPulse,         \* last pulse sent on each channel, 0 before any
    \* history, not read by the program
    iter,              \* comms loop iteration, modulo 2
    thrTag, rudTag,    \* iteration that wrote throttle / rudder (2 at start)
    m_thrTag, m_rudTag,\* iteration tags copied along with main's snapshot
    published,         \* the pair written by the last completed publish
    cycled,            \* a control cycle has emitted a pulse
    sigHandled,        \* __signal_handler has run
    sigRunning,        \* __signal_handler has run while main was in its control loop
    recvAfterSig       \* recvfrom calls issued after that, capped at 2

vars == <<mainPc, commsPc, exitStatus, handlerInstalled, running, throttle, rudder,
          mutex, udpsocket, nbytes, buffer, c_tmpThrottle, c_tmpRudder,
          m_tmpThrottle, m_tmpRudder, batt, servoInit, rail, lastPulse,
          iter, thrTag, rudTag, m_thrTag, m_rudTag, published, cycled,
          sigHandled, sigRunning, recvAfterSig>>

mainVars == <<m_tmpThrottle, m_tmpRudder, m_thrTag, m_rudTag, batt, servoInit, rail,
              lastPulse, cycled>>
commsVars == <<udpsocket, nbytes, buffer, c_tmpThrottle, c_tmpRudder, iter>>
sharedVars == <<throttle, rudder, thrTag, rudTag, published>>
sigVars == <<handlerInstalled, running, sigHandled, sigRunning, recvAfterSig>>

Alive == exitStatus = "running"

\* positions of main inside "while (running)" and of commsThread inside its loop
ControlLoopPcs == {"loop_test", "lock", "read_throttle", "read_rudder", "unlock",
                   "send_throttle", "send_rudder", "usleep"}
CommsLoopPcs == {"loop_test", "recvfrom", "parse", "lock", "write_throttle",
                 "write_rudder", "unlock"}

Init ==
    /\ mainPc = "signal"
    /\ commsPc = "not_started"
    /\ exitStatus = "running"
    /\ handlerInstalled = FALSE
    /\ running = 0
    /\ throttle = 0 /\ rudder = 0
    /\ mutex = "free"
    /\ udpsocket = "none"
    /\ nbytes = 0 /\ buffer = <<>>
    /\ c_tmpThrottle = 0 /\ c_tmpRudder = 0
    /\ m_tmpThrottle = 0 /\ m_tmpRudder = 0
    /\ batt = 0
    /\ servoInit = FALSE
    /\ rail = 0
    /\ lastPulse = [ch \in {THROTTLE_SERVO, RUDDER_SERVO} |-> 0]
    /\ iter = 0
    /\ thrTag = 2 /\ rudTag = 2
    /\ m_thrTag = 2 /\ m_rudTag = 2
    /\ published = <<0, 0>>
    /\ cycled = FALSE
    /\ sigHandled = FALSE
    /\ sigRunning = FALSE
    /\ recvAfterSig = 0

\* ------------------------------------------------------ signal handler
\* SIGINT delivered once the handler is installed: running = 0
signal_handler ==
    /\ Alive
    /\ handlerInstalled
    /\ running' = 0
    /\ sigHandled' = TRUE
    /\ sigRunning' = (sigRunning \/ mainPc \in ControlLoopPcs)
    /\ UNCHANGED <<mainPc, commsPc, exitStatus, handlerInstalled, mutex, recvAfterSig>>
    /\ UNCHANGED <<mainVars, commsVars, sharedVars>>

\* ------------------------------------------------------------- main()
\* return from main: the process ends with that status
Exit(status) ==
    /\ mainPc' = "exited"
    /\ exitStatus' = status

\* line 148: signal(SIGINT, __signal_handler)
m_signal ==
    /\ Alive /\ mainPc = "signal"
    /\ handlerInstalled' = TRUE
    /\ mainPc' = "set_running"
    /\ UNCHANGED <<commsPc, exitStatus, running, sigHandled, sigRunning, recvAfterSig, mutex>>
    /\ UNCHANGED <<mainVars, commsVars, sharedVars>>

\* line 149: running = 1
m_set_running ==
    /\ Alive /\ mainPc = "set_running"
    /\ running' = 1
    /\ mainPc' = "rc_adc_init"
    /\ UNCHANGED <<commsPc, exitStatus, handlerInstalled, sigHandled, sigRunning, recvAfterSig, mutex>>
    /\ UNCHANGED <<mainVars, commsVars, sharedVars>>

\* lines 152-155: rc_adc_init(), return -1 on failure
m_rc_adc_init ==
    /\ Alive /\ mainPc = "rc_adc_init"
    /\ \E failed \in BOOLEAN :
         IF failed THEN Exit("-1")
         ELSE mainPc' = "rc_adc_batt" /\ UNCHANGED exitStatus
    /\ UNCHANGED <<commsPc, mutex>>
    /\ UNCHANGED <<mainVars, commsVars, sharedVars, sigVars>>

\* the battery read once, with "if" for "while", going on whatever it reads
m_rc_adc_batt_once ==
    /\ Alive /\ mainPc = "rc_adc_batt"
    /\ \E v \in BattReadings : batt' = v
    /\ mainPc' = "rc_servo_init"
    /\ UNCHANGED <<commsPc, exitStatus, mutex>>
    /\ UNCHANGED <<m_tmpThrottle, m_tmpRudder, m_thrTag, m_rudTag, servoInit, rail, lastPulse, cycled>>
    /\ UNCHANGED <<commsVars, sharedVars, sigVars>>

\* lines 156-160: while (rc_adc_batt() < 6.0) wait and read again
m_rc_adc_batt ==
    /\ Alive /\ mainPc = "rc_adc_batt"
    /\ \E v \in BattReadings :
         /\ batt' = v
         /\ mainPc' = IF v < BattThreshold THEN "rc_adc_batt" ELSE "rc_servo_init"
    /\ UNCHANGED <<commsPc, exitStatus, mutex>>
    /\ UNCHANGED <<m_tmpThrottle, m_tmpRudder, m_thrTag, m_rudTag, servoInit, rail, lastPulse, cycled>>
    /\ UNCHANGED <<commsVars, sharedVars, sigVars>>

\* rc_servo_init() called with its return value ignored
m_rc_servo_init_ignored ==
    /\ Alive /\ mainPc = "rc_servo_init"
    /\ \E failed \in BOOLEAN : servoInit' = ~failed
    /\ mainPc' = "power_rail_en"
    /\ UNCHANGED <<commsPc, exitStatus, mutex>>
    /\ UNCHANGED <<m_tmpThrottle, m_tmpRudder, m_thrTag, m_rudTag, batt, rail, lastPulse, cycled>>
    /\ UNCHANGED <<commsVars, sharedVars, sigVars>>

\* line 163: if (rc_servo_init()) return -1
m_rc_servo_init ==
    /\ Alive /\ mainPc = "rc_servo_init"
    /\ \E failed \in BOOLEAN :
         IF failed THEN Exit("-1") /\ UNCHANGED servoInit
         ELSE mainPc' = "power_rail_en" /\ servoInit' = TRUE /\ UNCHANGED exitStatus
    /\ UNCHANGED <<commsPc, mutex>>
    /\ UNCHANGED <<m_tmpThrottle, m_tmpRudder, m_thrTag, m_rudTag, batt, rail, lastPulse, cycled>>
    /\ UNCHANGED <<commsVars, sharedVars, sigVars>>

\* line 167: rc_servo_power_rail_en(1)
m_power_rail_en ==
    /\ Alive /\ mainPc = "power_rail_en"
    /\ rail' = 1
    /\ mainPc' = "zero_throttle"
    /\ UNCHANGED <<commsPc, exitStatus, mutex>>
    /\ UNCHANGED <<m_tmpThrottle, m_tmpRudder, m_thrTag, m_rudTag, batt, servoInit, lastPulse, cycled>>
    /\ UNCHANGED <<commsVars, sharedVars, sigVars>>

\* rc_servo_send_pulse_us(ch, us)
rc_servo_send_pulse_us(ch, us) ==
    lastPulse' = [lastPulse EXCEPT ![ch] = us]

\* line 171: zero the throttle output at startup
m_zero_throttle ==
    /\ Alive /\ mainPc = "zero_throttle"
    /\ rc_servo_send_pulse_us(THROTTLE_SERVO, THROTTLE_MIN_PULSE_LENGTH_USEC)
    /\ mainPc' = "zero_rudder"
    /\ UNCHANGED <<commsPc, exitStatus, mutex>>
    /\ UNCHANGED <<m_tmpThrottle, m_tmpRudder, m_thrTag, m_rudTag, batt, servoInit, rail, cycled>>
    /\ UNCHANGED <<commsVars, sharedVars, sigVars>>

\* startup sending the rudder its minimum pulse instead of the centre pulse
m_zero_rudder_min ==
    /\ Alive /\ mainPc = "zero_rudder"
    /\ rc_servo_send_pulse_us(RUDDER_SERVO, RUDDER_MIN_PULSE_LENGTH_USEC)
    /\ mainPc' = "pthread_create"
    /\ UNCHANGED <<commsPc, exitStatus, mutex>>
    /\ UNCHANGED <<m_tmpThrottle, m_tmpRudder, m_thrTag, m_rudTag, batt, servoInit, rail, cycled>>
    /\ UNCHANGED <<commsVars, sharedVars, sigVars>>

\* lines 172-173: centre the rudder output at startup, then rc_usleep
m_zero_rudder ==
    /\ Alive /\ mainPc = "zero_rudder"
    /\ rc_servo_send_pulse_us(RUDDER_SERVO, RUDDER_CENTRE_PULSE_LENGTH_USEC)
    /\ mainPc' = "pthread_create"
    /\ UNCHANGED <<commsPc, exitStatus, mutex>>
    /\ UNCHANGED <<m_tmpThrottle, m_tmpRudder, m_thrTag, m_rudTag, batt, servoInit, rail, cycled>>
    /\ UNCHANGED <<commsVars, sharedVars, sigVars>>

\* lines 176-177: pthread_create(&udp_socket_thread, NULL, commsThread, NULL)
m_pthread_create ==
    /\ Alive /\ mainPc = "pthread_create"
    /\ commsPc' = "socket"
    /\ mainPc' = "loop_test"
    /\ UNCHANGED <<exitStatus, mutex>>
    /\ UNCHANGED <<mainVars, commsVars, sharedVars, sigVars>>

\* line 180: while (running)
m_loop_test ==
    /\ Alive /\ mainPc = "loop_test"
    /\ mainPc' = IF running # 0 THEN "lock" ELSE "pthread_join"
    /\ UNCHANGED <<commsPc, exitStatus, mutex>>
    /\ UNCHANGED <<mainVars, commsVars, sharedVars, sigVars>>

\* a lock that does not exclude the other thread
pthread_mutex_lock_shared(t) ==
    /\ mutex' = t

\* pthread_mutex_lock(&mutex) by thread t: blocks while the mutex is held
pthread_mutex_lock(t) ==
    /\ mutex = "free"
    /\ mutex' = t

\* an unlock that leaves the mutex held
pthread_mutex_unlock_forgotten ==
    mutex' = mutex

\* pthread_mutex_unlock(&mutex)
pthread_mutex_unlock ==
    mutex' = "free"

\* line 182
m_lock ==
    /\ Alive /\ mainPc = "lock"
    /\ pthread_mutex_lock("main")
    /\ mainPc' = "read_throttle"
    /\ UNCHANGED <<commsPc, exitStatus>>
    /\ UNCHANGED <<mainVars, commsVars, sharedVars, sigVars>>

\* line 183: double tmpThrottle = throttle
m_read_throttle ==
    /\ Alive /\ mainPc = "read_throttle"
    /\ m_tmpThrottle' = throttle
    /\ m_thrTag' = thrTag
    /\ mainPc' = "read_rudder"
    /\ UNCHANGED <<commsPc, exitStatus, mutex>>
    /\ UNCHANGED <<m_tmpRudder, m_rudTag, batt, servoInit, rail, lastPulse, cycled>>
    /\ UNCHANGED <<commsVars, sharedVars, sigVars>>

\* line 184: double tmpRudder = rudder
m_read_rudder ==
    /\ Alive /\ mainPc = "read_rudder"
    /\ m_tmpRudder' = rudder
    /\ m_rudTag' = rudTag
    /\ mainPc' = "unlock"
    /\ UNCHANGED <<commsPc, exitStatus, mutex>>
    /\ UNCHANGED <<m_tmpThrottle, m_thrTag, batt, servoInit, rail, lastPulse, cycled>>
    /\ UNCHANGED <<commsVars, sharedVars, sigVars>>

\* line 185
m_unlock ==
    /\ Alive /\ mainPc = "unlock"
    /\ pthread_mutex_unlock
    /\ mainPc' = "send_throttle"
    /\ UNCHANGED <<commsPc, exitStatus>>
    /\ UNCHANGED <<mainVars, commsVars, sharedVars, sigVars>>

\* the throttle range test with "<" for its upper end
throttle_usec_exclusive(v) ==
    IF v >= 0 /\ v < 100 * Scale
    THEN (v * THROTTLE_RANGE_USEC) \div (100 * Scale) + THROTTLE_MIN_PULSE_LENGTH_USEC
    ELSE THROTTLE_MIN_PULSE_LENGTH_USEC

\* the throttle mapping without its range test
throttle_usec_unchecked(v) ==
    (v * THROTTLE_RANGE_USEC) \div (100 * Scale) + THROTTLE_MIN_PULSE_LENGTH_USEC

\* the throttle mapping scaled like the rudder's, over 200.0
throttle_usec_halved(v) ==
    IF v >= 0 /\ v <= 100 * Scale
    THEN (v * THROTTLE_RANGE_USEC) \div (200 * Scale) + THROTTLE_MIN_PULSE_LENGTH_USEC
    ELSE THROTTLE_MIN_PULSE_LENGTH_USEC

\* lines 188-193: throttle_usec from tmpThrottle
throttle_usec(v) ==
    IF v >= 0 /\ v <= 100 * Scale
    THEN (v * THROTTLE_RANGE_USEC) \div (100 * Scale) + THROTTLE_MIN_PULSE_LENGTH_USEC
    ELSE THROTTLE_MIN_PULSE_LENGTH_USEC

\* an out-of-range rudder sent to the minimum pulse instead of the centre
rudder_usec_clamp_min(v) ==
    IF v >= 0 - 100 * Scale /\ v <= 100 * Scale
    THEN (v * RUDDER_RANGE_USEC) \div (200 * Scale) + RUDDER_CENTRE_PULSE_LENGTH_USEC
    ELSE RUDDER_MIN_PULSE_LENGTH_USEC

\* the rudder mapping scaled like the throttle's, over 100.0
rudder_usec_over100(v) ==
    IF v >= 0 - 100 * Scale /\ v <= 100 * Scale
    THEN (v * RUDDER_RANGE_USEC) \div (100 * Scale) + RUDDER_CENTRE_PULSE_LENGTH_USEC
    ELSE RUDDER_CENTRE_PULSE_LENGTH_USEC

\* lines 194-199: rudder_usec from tmpRudder
rudder_usec(v) ==
    IF v >= 0 - 100 * Scale /\ v <= 100 * Scale
    THEN (v * RUDDER_RANGE_USEC) \div (200 * Scale) + RUDDER_CENTRE_PULSE_LENGTH_USEC
    ELSE RUDDER_CENTRE_PULSE_LENGTH_USEC

\* lines 188-193 and 203
m_send_throttle ==
    /\ Alive /\ mainPc = "send_throttle"
    /\ rc_servo_send_pulse_us(THROTTLE_SERVO, throttle_usec(m_tmpThrottle))
    /\ cycled' = TRUE
    /\ mainPc' = "send_rudder"
    /\ UNCHANGED <<commsPc, exitStatus, mutex>>
    /\ UNCHANGED <<m_tmpThrottle, m_tmpRudder, m_thrTag, m_rudTag, batt, servoInit, rail>>
    /\ UNCHANGED <<commsVars, sharedVars, sigVars>>

\* lines 194-199 and 204
m_send_rudder ==
    /\ Alive /\ mainPc = "send_rudder"
    /\ rc_servo_send_pulse_us(RUDDER_SERVO, rudder_usec(m_tmpRudder))
    /\ mainPc' = "usleep"
    /\ UNCHANGED <<commsPc, exitStatus, mutex>>
    /\ UNCHANGED <<m_tmpThrottle, m_tmpRudder, m_thrTag, m_rudTag, batt, servoInit, rail, cycled>>
    /\ UNCHANGED <<commsVars, sharedVars, sigVars>>

\* lines 206-207: rc_usleep(1000000/SERVO_PULSE_RATE_HZ); the locals of the
\* loop body are gone at the closing brace
m_usleep ==
    /\ Alive /\ mainPc = "usleep"
    /\ mainPc' = "loop_test"
    /\ m_tmpThrottle' = 0 /\ m_tmpRudder' = 0
    /\ m_thrTag' = 2 /\ m_rudTag' = 2
    /\ UNCHANGED <<commsPc, exitStatus, mutex>>
    /\ UNCHANGED <<batt, servoInit, rail, lastPulse, cycled>>
    /\ UNCHANGED <<commsVars, sharedVars, sigVars>>

\* main going on to shutdown without waiting for commsThread
m_pthread_join_nowait ==
    /\ Alive /\ mainPc = "pthread_join"
    /\ mainPc' = "final_throttle"
    /\ UNCHANGED <<commsPc, exitStatus, mutex>>
    /\ UNCHANGED <<mainVars, commsVars, sharedVars, sigVars>>

\* line 210: pthread_join(udp_socket_thread, NULL)
m_pthread_join ==
    /\ Alive /\ mainPc = "pthread_join"
    /\ commsPc = "done"
    /\ commsPc' = "joined"
    /\ mainPc' = "final_throttle"
    /\ UNCHANGED <<exitStatus, mutex>>
    /\ UNCHANGED <<mainVars, commsVars, sharedVars, sigVars>>

\* line 213
m_final_throttle ==
    /\ Alive /\ mainPc = "final_throttle"
    /\ rc_servo_send_pulse_us(THROTTLE_SERVO, THROTTLE_MIN_PULSE_LENGTH_USEC)
    /\ mainPc' = "final_rudder"
    /\ UNCHANGED <<commsPc, exitStatus, mutex>>
    /\ UNCHANGED <<m_tmpThrottle, m_tmpRudder, m_thrTag, m_rudTag, batt, servoInit, rail, cycled>>
    /\ UNCHANGED <<commsVars, sharedVars, sigVars>>

\* line 214
m_final_rudder ==
    /\ Alive /\ mainPc = "final_rudder"
    /\ rc_servo_send_pulse_us(RUDDER_SERVO, RUDDER_CENTRE_PULSE_LENGTH_USEC)
    /\ mainPc' = "power_rail_off"
    /\ UNCHANGED <<commsPc, exitStatus, mutex>>
    /\ UNCHANGED <<m_tmpThrottle, m_tmpRudder, m_thrTag, m_rudTag, batt, servoInit, rail, cycled>>
    /\ UNCHANGED <<commsVars, sharedVars, sigVars>>

\* lines 217-220: rc_usleep, rc_servo_power_rail_en(0), rc_servo_cleanup, return 0
m_power_rail_off ==
    /\ Alive /\ mainPc = "power_rail_off"
    /\ rail' = 0
    /\ Exit("0")
    /\ UNCHANGED <<commsPc, mutex>>
    /\ UNCHANGED <<m_tmpThrottle, m_tmpRudder, m_thrTag, m_rudTag, batt, servoInit, lastPulse, cycled>>
    /\ UNCHANGED <<commsVars, sharedVars, sigVars>>

\* -------------------------------------------------------- commsThread()
\* a failed setup call: fprintf and "return NULL", the thread ends
CommsSetup(pc, next, sockAfter) ==
    /\ Alive /\ commsPc = pc
    /\ \E failed \in BOOLEAN :
         IF failed THEN commsPc' = "done" /\ UNCHANGED udpsocket
         ELSE commsPc' = next /\ udpsocket' = sockAfter
    /\ UNCHANGED <<mainPc, exitStatus, mutex>>
    /\ UNCHANGED <<nbytes, buffer, c_tmpThrottle, c_tmpRudder, iter>>
    /\ UNCHANGED <<mainVars, sharedVars, sigVars>>

\* lines 77-81: socket()
c_socket == CommsSetup("socket", "setsockopt_reuse", "open")

\* lines 89-93: setsockopt(SO_REUSEADDR)
c_setsockopt_reuse == CommsSetup("setsockopt_reuse", "setsockopt_timeout", "open")

\* lines 94-100: setsockopt(SO_RCVTIMEO)
c_setsockopt_timeout == CommsSetup("setsockopt_timeout", "bind", "open")

\* lines 103-106: bind()
c_bind == CommsSetup("bind", "loop_test", "bound")

\* lines 109-115: while (running), char buffer[20] = {0}
c_loop_test ==
    /\ Alive /\ commsPc = "loop_test"
    /\ commsPc' = IF running # 0 THEN "recvfrom" ELSE "close"
    /\ buffer' = <<>>
    /\ UNCHANGED <<mainPc, exitStatus, mutex, udpsocket, iter>>
    /\ UNCHANGED <<nbytes, c_tmpThrottle, c_tmpRudder>>
    /\ UNCHANGED <<mainVars, sharedVars, sigVars>>

\* what recvfrom(udpsocket, buffer, sizeof(buffer), ...) leaves for datagram p:
\* at most BufSize bytes are copied, the rest of the datagram is discarded
Received(p) ==
    LET n == IF Len(p) <= BufSize THEN Len(p) ELSE BufSize
    IN [nbytes |-> n, buffer |-> SubSeq(p, 1, n)]

\* c_recvfrom with tmpThrottle, tmpRudder declared outside the loop and not
\* zeroed again on each iteration
c_recvfrom_stale ==
    /\ Alive /\ commsPc = "recvfrom"
    /\ \/ nbytes' = 0 - 1 /\ buffer' = <<>>
       \/ \E p \in Payloads :
            /\ nbytes' = Received(p).nbytes
            /\ buffer' = Received(p).buffer
    /\ UNCHANGED <<c_tmpThrottle, c_tmpRudder>>
    /\ iter' = (iter + 1) % 2
    /\ recvAfterSig' = IF sigRunning /\ recvAfterSig < 2 THEN recvAfterSig + 1
                       ELSE recvAfterSig
    /\ commsPc' = "parse"
    /\ UNCHANGED <<mainPc, exitStatus, mutex, udpsocket>>
    /\ UNCHANGED <<handlerInstalled, running, sigHandled, sigRunning>>
    /\ UNCHANGED <<mainVars, sharedVars>>

\* lines 116-118: recvfrom returns a datagram, or -1 after COMMS_TIMEOUT_SEC;
\* double tmpThrottle = 0.0, tmpRudder = 0.0
c_recvfrom ==
    /\ Alive /\ commsPc = "recvfrom"
    /\ \/ nbytes' = 0 - 1 /\ buffer' = <<>>
       \/ \E p \in Payloads :
            /\ nbytes' = Received(p).nbytes
            /\ buffer' = Received(p).buffer
    /\ c_tmpThrottle' = 0 /\ c_tmpRudder' = 0
    /\ iter' = (iter + 1) % 2
    /\ recvAfterSig' = IF sigRunning /\ recvAfterSig < 2 THEN recvAfterSig + 1
                       ELSE recvAfterSig
    /\ commsPc' = "parse"
    /\ UNCHANGED <<mainPc, exitStatus, mutex, udpsocket>>
    /\ UNCHANGED <<handlerInstalled, running, sigHandled, sigRunning>>
    /\ UNCHANGED <<mainVars, sharedVars>>

\* strtod(ptr, &eptr) where ptr came from strtok: a NULL ptr is undefined
\* behaviour, the call faults or hands back some value
StrtodOutcomes(tok) ==
    IF tok.isNull
    THEN {[fault |-> TRUE, val |-> 0]} \cup {[fault |-> FALSE, val |-> u] : u \in UBValues}
    ELSE {[fault |-> FALSE, val |-> strtod(tok.str).val]}

\* line 122: buffer[nbytes] = '\0' is a write past the array when
\* nbytes = sizeof(buffer): undefined behaviour, it faults or goes unnoticed
TerminatorOutcomes(n) ==
    IF n >= BufSize THEN {TRUE, FALSE} ELSE {FALSE}

\* lines 119-132: the tokens of the received text
FirstToken(buf) == strtok(buf)
SecondToken(buf) == strtok(strtok(buf).rest)

\* c_parse with a bounds check that zeroes an out-of-range field
c_parse_validated ==
    /\ Alive /\ commsPc = "parse"
    /\ IF nbytes > 0
       THEN \E tf \in TerminatorOutcomes(nbytes),
               o1 \in StrtodOutcomes(FirstToken(buffer)),
               o2 \in StrtodOutcomes(SecondToken(buffer)) :
              IF tf \/ o1.fault \/ o2.fault
              THEN /\ exitStatus' = "SIGSEGV"
                   /\ UNCHANGED <<commsPc, c_tmpThrottle, c_tmpRudder>>
              ELSE /\ c_tmpThrottle' = IF o1.val >= 0 /\ o1.val <= 100 * Scale
                                       THEN o1.val ELSE 0
                   /\ c_tmpRudder' = IF o2.val >= 0 - 100 * Scale /\ o2.val <= 100 * Scale
                                     THEN o2.val ELSE 0
                   /\ commsPc' = "lock"
                   /\ UNCHANGED exitStatus
       ELSE /\ commsPc' = "lock"
            /\ UNCHANGED <<exitStatus, c_tmpThrottle, c_tmpRudder>>
    /\ UNCHANGED <<mainPc, mutex, udpsocket, nbytes, buffer, iter>>
    /\ UNCHANGED <<mainVars, sharedVars, sigVars>>

\* lines 119-132: parse the datagram into tmpThrottle, tmpRudder
c_parse ==
    /\ Alive /\ commsPc = "parse"
    /\ IF nbytes > 0
       THEN \E tf \in TerminatorOutcomes(nbytes),
               o1 \in StrtodOutcomes(FirstToken(buffer)),
               o2 \in StrtodOutcomes(SecondToken(buffer)) :
              IF tf \/ o1.fault \/ o2.fault
              THEN /\ exitStatus' = "SIGSEGV"
                   /\ UNCHANGED <<commsPc, c_tmpThrottle, c_tmpRudder>>
              ELSE /\ c_tmpThrottle' = o1.val
                   /\ c_tmpRudder' = o2.val
                   /\ commsPc' = "lock"
                   /\ UNCHANGED exitStatus
       ELSE /\ commsPc' = "lock"
            /\ UNCHANGED <<exitStatus, c_tmpThrottle, c_tmpRudder>>
    /\ UNCHANGED <<mainPc, mutex, udpsocket, nbytes, buffer, iter>>
    /\ UNCHANGED <<mainVars, sharedVars, sigVars>>

\* line 135
c_lock ==
    /\ Alive /\ commsPc = "lock"
    /\ pthread_mutex_lock("comms")
    /\ commsPc' = "write_throttle"
    /\ UNCHANGED <<mainPc, exitStatus>>
    /\ UNCHANGED <<mainVars, commsVars, sharedVars, sigVars>>

\* line 136: throttle = tmpThrottle
c_write_throttle ==
    /\ Alive /\ commsPc = "write_throttle"
    /\ throttle' = c_tmpThrottle
    /\ thrTag' = iter
    /\ commsPc' = "write_rudder"
    /\ UNCHANGED <<mainPc, exitStatus, mutex, rudder, rudTag, published>>
    /\ UNCHANGED <<mainVars, commsVars, sigVars>>

\* line 137: rudder = tmpRudder
c_write_rudder ==
    /\ Alive /\ commsPc = "write_rudder"
    /\ rudder' = c_tmpRudder
    /\ rudTag' = iter
    /\ published' = <<throttle, c_tmpRudder>>
    /\ commsPc' = "unlock"
    /\ UNCHANGED <<mainPc, exitStatus, mutex, throttle, thrTag>>
    /\ UNCHANGED <<mainVars, commsVars, sigVars>>

\* line 138
c_unlock ==
    /\ Alive /\ commsPc = "unlock"
    /\ pthread_mutex_unlock
    /\ commsPc' = "loop_test"
    /\ UNCHANGED <<mainPc, exitStatus>>
    /\ UNCHANGED <<mainVars, commsVars, sharedVars, sigVars>>

\* lines 142-143: close(udpsocket); return NULL
c_close ==
    /\ Alive /\ commsPc = "close"
    /\ udpsocket' = "closed"
    /\ commsPc' = "done"
    /\ UNCHANGED <<mainPc, exitStatus, mutex>>
    /\ UNCHANGED <<nbytes, buffer, c_tmpThrottle, c_tmpRudder, iter>>
    /\ UNCHANGED <<mainVars, sharedVars, sigVars>>

\* ------------------------------------------------------- specification
MainNext ==
    \/ m_signal \/ m_set_running \/ m_rc_adc_init \/ m_rc_adc_batt
    \/ m_rc_servo_init \/ m_power_rail_en \/ m_zero_throttle \/ m_zero_rudder
    \/ m_pthread_create \/ m_loop_test \/ m_lock \/ m_read_throttle
    \/ m_read_rudder \/ m_unlock \/ m_send_throttle \/ m_send_rudder
    \/ m_usleep \/ m_pthread_join \/ m_final_throttle \/ m_final_rudder
    \/ m_power_rail_off

CommsNext ==
    \/ c_socket \/ c_setsockopt_reuse \/ c_setsockopt_timeout \/ c_bind
    \/ c_loop_test \/ c_recvfrom \/ c_parse \/ c_lock \/ c_write_throttle
    \/ c_write_rudder \/ c_unlock \/ c_close

Next == MainNext \/ CommsNext \/ signal_handler

Spec == Init /\ [][Next]_vars

\* ------------------------------------------- the control cycle on its own
\* length of the decimal text of the whole number v, as a datagram carries it
DecimalLen(v) ==
    LET a == IF v < 0 THEN 0 - v ELSE v
    IN (IF v < 0 THEN 1 ELSE 0) + (IF a < 10 THEN 1 ELSE IF a < 100 THEN 2 ELSE 3)

\* whole-number demands a datagram "t,r" can carry, in and out of range
ThrottleDemands == (0 - DemandMargin)..(100 + DemandMargin)
RudderDemands == (0 - 100 - DemandMargin)..(100 + DemandMargin)

\* the state in which commsThread has published "t,r" in its first iteration
\* and waits in its next recvfrom, while main has not run a cycle yet
MapInit ==
    \E t \in ThrottleDemands, r \in RudderDemands :
        /\ mainPc = "loop_test"
        /\ commsPc = "recvfrom"
        /\ exitStatus = "running"
        /\ handlerInstalled = TRUE
        /\ running = 1
        /\ throttle = t * Scale /\ rudder = r * Scale
        /\ mutex = "free"
        /\ udpsocket = "bound"
        /\ nbytes = DecimalLen(t) + 1 + DecimalLen(r) /\ buffer = <<>>
        /\ c_tmpThrottle = t * Scale /\ c_tmpRudder = r * Scale
        /\ m_tmpThrottle = 0 /\ m_tmpRudder = 0
        /\ batt = BattThreshold
        /\ servoInit = TRUE
        /\ rail = 1
        /\ lastPulse = [ch \in {THROTTLE_SERVO, RUDDER_SERVO} |->
                          IF ch = THROTTLE_SERVO THEN THROTTLE_MIN_PULSE_LENGTH_USEC
                          ELSE RUDDER_CENTRE_PULSE_LENGTH_USEC]
        /\ iter = 1
        /\ thrTag = 1 /\ rudTag = 1
        /\ m_thrTag = 2 /\ m_rudTag = 2
        /\ published = <<t * Scale, r * Scale>>
        /\ cycled = FALSE
        /\ sigHandled = FALSE
        /\ sigRunning = FALSE
        /\ recvAfterSig = 0

\* lines 180-207: the steps of one control cycle
MapNext ==
    \/ m_loop_test \/ m_lock \/ m_read_throttle \/ m_read_rudder \/ m_unlock
    \/ m_send_throttle \/ m_send_rudder \/ m_usleep

MapSpec == MapInit /\ [][MapNext]_vars

\* ---------------------------------------------------------- properties
\* positions of commsThread at which nbytes and buffer are those of the
\* receive of the current iteration
AfterReceive == {"parse", "lock", "write_throttle", "write_rudder", "unlock"}
\* positions of main at which tmpThrottle, tmpRudder hold this cycle's copy
AfterRead == {"unlock", "send_throttle", "send_rudder", "usleep"}
Neutral == [ch \in {THROTTLE_SERVO, RUDDER_SERVO} |->
              IF ch = THROTTLE_SERVO THEN THROTTLE_MIN_PULSE_LENGTH_USEC
              ELSE RUDDER_CENTRE_PULSE_LENGTH_USEC]

\* the text before the first comma, and the text between the first comma and
\* the second (or the end)
HasComma(buf) == \E i \in 1..Len(buf) : buf[i] = delim
FirstField(buf) == SubSeq(buf, 1, strcspn(buf, 1, {delim}) - 1)
SecondField(buf) ==
    LET c == strcspn(buf, 1, {delim})
    IN SubSeq(buf, c + 1, strcspn(buf, c + 1, {delim}) - 1)
\* the whole field is one decimal number
WellFormed(f) == Len(f) > 0 /\ strtod(f).end = Len(f)

\* C1: an iteration whose receive timed out publishes {0,0}, and a field of
\* the shared demand only ever changes to something other than 0 by the
\* publish of an iteration that received a packet, so the demand stays {0,0}
\* across timeouts.
C1_FailsafeOnSilence ==
    /\ [](commsPc = "unlock" /\ nbytes < 0
            => throttle = 0 /\ rudder = 0 /\ published = <<0, 0>>)
    /\ [][((throttle' # throttle /\ throttle' # 0) \/ (rudder' # rudder /\ rudder' # 0))
            => nbytes > 0 /\ commsPc \in {"write_throttle", "write_rudder"}]_vars

\* C1 witness: a timeout has zeroed the demand while the servos still carry
\* the pulses of an earlier "100,100".
C1_Witness ==
    /\ commsPc = "unlock" /\ nbytes < 0
    /\ throttle = 0 /\ rudder = 0
    /\ lastPulse[THROTTLE_SERVO] = THROTTLE_MAX_PULSE_LENGTH_USEC

\* C2: a datagram without a comma (one token, empty, or blank) never ends the
\* process and its iteration publishes {0,0}.
C2_AbsentFieldPublishesZero ==
    (commsPc \in AfterReceive /\ nbytes >= 0 /\ ~HasComma(buffer))
        => /\ exitStatus # "SIGSEGV"
           /\ (commsPc = "unlock" => throttle = 0 /\ rudder = 0)

\* C3: a datagram with two fields of which at least one is not a well-formed
\* number publishes {0,0} on both axes.
C3_MalformedPublishesZero ==
    (/\ commsPc = "unlock" /\ nbytes > 0 /\ HasComma(buffer)
     /\ FirstField(buffer) # <<>> /\ SecondField(buffer) # <<>>
     /\ ~(WellFormed(FirstField(buffer)) /\ WellFormed(SecondField(buffer))))
        => throttle = 0 /\ rudder = 0

\* C4: the throttle and the rudder main copies in one cycle were written by
\* the same publish (or are both the initial values).
C4_NoPartialRead ==
    mainPc \in AfterRead => m_thrTag = m_rudTag

\* C4 witness: main is between its two reads and holds the mutex while
\* commsThread waits to publish a different demand.
C4_Witness ==
    /\ mainPc = "read_rudder" /\ commsPc = "lock"
    /\ thrTag # 2
    /\ <<c_tmpThrottle, c_tmpRudder>> # <<throttle, rudder>>

\* C5: once socket setup has failed, main is never inside a control cycle and
\* the process does not end with status 0.
EndpointFailed == commsPc \in {"done", "joined"} /\ udpsocket # "closed"
C5_EndpointFailureFatal ==
    EndpointFailed => /\ mainPc \notin (ControlLoopPcs \ {"loop_test"})
                      /\ exitStatus # "0"

\* C6: the power rail is switched off only when commsThread has been joined
\* and the last pulse on each channel is the neutral one.
C6_ShutdownOrdering ==
    [][rail = 1 /\ rail' = 0 => commsPc = "joined" /\ lastPulse = Neutral]_vars

\* C6 witness: a run that drove the servos away from neutral has shut down.
C6_Witness ==
    /\ exitStatus = "0" /\ rail = 0
    /\ commsPc = "joined" /\ udpsocket = "closed"
    /\ cycled /\ published # <<0, 0>>

\* C7: after a SIGINT handled while main is in its control loop, commsThread
\* completes at most one more receive and the process, when it ends, ends
\* with status 0 and the power rail off.
C7_ShutdownCompletes ==
    sigRunning => /\ recvAfterSig <= 1
                  /\ (exitStatus # "running" => exitStatus = "0" /\ rail = 0)

\* C8: once the handler has cleared running, no step sets it again.
C8_FlagSticky ==
    [][sigHandled /\ running = 0 => running' = 0]_vars

\* C9: when commsThread has been started or main is in its control loop, and
\* no cycle has emitted yet, both channels carry the neutral pulse.
C9_StartupSafety ==
    ((commsPc # "not_started" \/ mainPc \in ControlLoopPcs) /\ ~cycled)
        => lastPulse = Neutral

\* C9 witness: commsThread is receiving and the first cycle is about to emit.
C9_Witness ==
    /\ commsPc = "recvfrom" /\ mainPc = "send_throttle" /\ ~cycled
    /\ lastPulse = Neutral

\* C10: main's copy is the pair of the last completed publish, every cycle
\* leaves on both channels the mapping of that copy, and "0,0", "100,100" and
\* a timeout are published and emitted as (min, centre), (max, centre + half
\* the range), (min, centre).
C10_CycleEmitsPublished ==
    /\ (mainPc = "unlock" => <<m_tmpThrottle, m_tmpRudder>> = published)
    /\ (mainPc = "usleep" =>
          /\ lastPulse[THROTTLE_SERVO] = throttle_usec(m_tmpThrottle)
          /\ lastPulse[RUDDER_SERVO] = rudder_usec(m_tmpRudder))
    /\ (commsPc = "unlock" /\ (nbytes < 0 \/ buffer = P_0_0) => published = <<0, 0>>)
    /\ (commsPc = "unlock" /\ buffer = P_100_100 => published = <<100 * Scale, 100 * Scale>>)
    /\ (mainPc = "usleep" /\ <<m_tmpThrottle, m_tmpRudder>> = <<0, 0>> =>
          /\ lastPulse[THROTTLE_SERVO] = THROTTLE_MIN_PULSE_LENGTH_USEC
          /\ lastPulse[RUDDER_SERVO] = RUDDER_CENTRE_PULSE_LENGTH_USEC)
    /\ (mainPc = "usleep" /\ <<m_tmpThrottle, m_tmpRudder>> = <<100 * Scale, 100 * Scale>> =>
          /\ lastPulse[THROTTLE_SERVO] = THROTTLE_MAX_PULSE_LENGTH_USEC
          /\ lastPulse[RUDDER_SERVO] = RUDDER_CENTRE_PULSE_LENGTH_USEC + RUDDER_RANGE_USEC \div 2)

\* C10 witness: a cycle has emitted the pulses of "100,100" and a timeout has
\* since zeroed the published demand.
C10_Witness ==
    /\ mainPc = "usleep"
    /\ <<m_tmpThrottle, m_tmpRudder>> = <<100 * Scale, 100 * Scale>>
    /\ lastPulse[THROTTLE_SERVO] = THROTTLE_MAX_PULSE_LENGTH_USEC
    /\ lastPulse[RUDDER_SERVO] = RUDDER_MAX_PULSE_LENGTH_USEC
    /\ published = <<0, 0>> /\ nbytes < 0

ThrottleInRange(v) == v >= 0 /\ v <= 100 * Scale
RudderInRange(v) == v >= 0 - 100 * Scale /\ v <= 100 * Scale

\* C11: a cycle that copied an out-of-range throttle leaves the minimum pulse
\* on the throttle channel, one that copied an out-of-range rudder leaves the
\* centre pulse on the rudder channel, an in-range axis gets its linear pulse
\* whatever the other axis is, and the process is still running.
C11_OutOfRangeClamp ==
    mainPc = "usleep" =>
        /\ exitStatus = "running" /\ running = 1
        /\ (~ThrottleInRange(m_tmpThrottle)
              => lastPulse[THROTTLE_SERVO] = THROTTLE_MIN_PULSE_LENGTH_USEC)
        /\ (~RudderInRange(m_tmpRudder)
              => lastPulse[RUDDER_SERVO] = RUDDER_CENTRE_PULSE_LENGTH_USEC)
        /\ (ThrottleInRange(m_tmpThrottle)
              => lastPulse[THROTTLE_SERVO] =
                   THROTTLE_MIN_PULSE_LENGTH_USEC
                   + (m_tmpThrottle * THROTTLE_RANGE_USEC) \div (100 * Scale))
        /\ (RudderInRange(m_tmpRudder)
              => lastPulse[RUDDER_SERVO] =
                   RUDDER_CENTRE_PULSE_LENGTH_USEC
                   + (m_tmpRudder * RUDDER_RANGE_USEC) \div (200 * Scale))

\* C11 witness: throttle 101 is clamped to the minimum pulse while rudder 50
\* is mapped in the same cycle.
C11_Witness ==
    /\ mainPc = "usleep"
    /\ m_tmpThrottle = 101 * Scale /\ m_tmpRudder = 50 * Scale
    /\ lastPulse[THROTTLE_SERVO] = THROTTLE_MIN_PULSE_LENGTH_USEC
    /\ lastPulse[RUDDER_SERVO] = 1800 * Scale

\* C12: for a whole-number throttle v in [0,100] the cycle emits
\* min + (v/100)*(max - min); 0 gives min (900), 100 gives max (2100), and the
\* mapping never decreases as v grows.
C12_ThrottleLinear ==
    /\ (mainPc = "usleep" /\ ThrottleInRange(m_tmpThrottle) =>
          /\ lastPulse[THROTTLE_SERVO] * 100 * Scale =
               THROTTLE_MIN_PULSE_LENGTH_USEC * 100 * Scale
               + m_tmpThrottle * (THROTTLE_MAX_PULSE_LENGTH_USEC - THROTTLE_MIN_PULSE_LENGTH_USEC)
          /\ (m_tmpThrottle = 0 => lastPulse[THROTTLE_SERVO] = 900 * Scale)
          /\ (m_tmpThrottle = 100 * Scale => lastPulse[THROTTLE_SERVO] = 2100 * Scale)
          /\ \A w \in 0..100 :
               /\ (w * Scale <= m_tmpThrottle
                     => throttle_usec(w * Scale) <= lastPulse[THROTTLE_SERVO])
               /\ (w * Scale >= m_tmpThrottle
                     => throttle_usec(w * Scale) >= lastPulse[THROTTLE_SERVO]))

\* C12 witness: a cycle has emitted the maximum pulse for throttle 100.
C12_Witness ==
    /\ mainPc = "usleep" /\ m_tmpThrottle = 100 * Scale
    /\ lastPulse[THROTTLE_SERVO] = THROTTLE_MAX_PULSE_LENGTH_USEC

\* C13: for a whole-number rudder v in [-100,100] the emitted pulse and the
\* pulse of -v add up to twice the centre pulse; 0 gives the centre (1500),
\* which is min + (max - min)/2, -100 gives min and 100 gives max.
C13_RudderSymmetric ==
    /\ RUDDER_CENTRE_PULSE_LENGTH_USEC = 1500 * Scale
    /\ 2 * RUDDER_CENTRE_PULSE_LENGTH_USEC =
         2 * RUDDER_MIN_PULSE_LENGTH_USEC
         + (RUDDER_MAX_PULSE_LENGTH_USEC - RUDDER_MIN_PULSE_LENGTH_USEC)
    /\ (mainPc = "usleep" /\ RudderInRange(m_tmpRudder) =>
          /\ lastPulse[RUDDER_SERVO] + rudder_usec(0 - m_tmpRudder)
               = 2 * RUDDER_CENTRE_PULSE_LENGTH_USEC
          /\ (m_tmpRudder = 0
                => lastPulse[RUDDER_SERVO] = RUDDER_CENTRE_PULSE_LENGTH_USEC)
          /\ (m_tmpRudder = 0 - 100 * Scale
                => lastPulse[RUDDER_SERVO] = RUDDER_MIN_PULSE_LENGTH_USEC)
          /\ (m_tmpRudder = 100 * Scale
                => lastPulse[RUDDER_SERVO] = RUDDER_MAX_PULSE_LENGTH_USEC))

\* C13 witness: a cycle has emitted the minimum pulse for rudder -100.
C13_Witness ==
    /\ mainPc = "usleep" /\ m_tmpRudder = 0 - 100 * Scale
    /\ lastPulse[RUDDER_SERVO] = RUDDER_MIN_PULSE_LENGTH_USEC

\* positions of commsThread at which tmpThrottle, tmpRudder are parsed
AfterParse == {"lock", "write_throttle", "write_rudder", "unlock"}
NoPulse == [ch \in {THROTTLE_SERVO, RUDDER_SERVO} |-> 0]

\* C14: a datagram whose two fields are both well-formed numbers is published
\* as exactly those numbers, in range or not: "75.0,-20.0" as {75,-20},
\* "150,-300" as {150,-300}.
C14_PublishedVerbatim ==
    /\ (/\ commsPc = "unlock" /\ nbytes > 0 /\ HasComma(buffer)
        /\ WellFormed(FirstField(buffer)) /\ WellFormed(SecondField(buffer)))
         => /\ throttle = strtod(FirstField(buffer)).val
            /\ rudder = strtod(SecondField(buffer)).val
            /\ published = <<throttle, rudder>>
    /\ (commsPc = "unlock" /\ buffer = P_75_m20
          => throttle = 75 * Scale /\ rudder = 0 - 20 * Scale)
    /\ (commsPc = "unlock" /\ buffer = P_150_m300
          => throttle = 150 * Scale /\ rudder = 0 - 300 * Scale)

\* C14 witness: "150,-300" has just been published as it came.
C14_Witness ==
    /\ commsPc = "unlock" /\ buffer = P_150_m300
    /\ throttle = 150 * Scale /\ rudder = 0 - 300 * Scale

\* C15: as long as rc_servo_init has not succeeded the power rail is off, no
\* pulse has been sent and commsThread has not been started, and a process
\* that ended without it ended with status -1.
C15_ServoInitFailureFatal ==
    /\ (~servoInit => rail = 0 /\ lastPulse = NoPulse /\ commsPc = "not_started" /\ ~cycled)
    /\ (mainPc = "exited" /\ ~servoInit => exitStatus = "-1")
    /\ (mainPc \in {"power_rail_en", "zero_throttle", "zero_rudder", "pthread_create"}
          => servoInit)

\* C15 witness: the battery was fine, rc_servo_init failed and the process has
\* ended.
C15_Witness ==
    /\ mainPc = "exited" /\ ~servoInit /\ batt >= BattThreshold
    /\ exitStatus = "-1" /\ rail = 0 /\ lastPulse = NoPulse

C17_SplitOnFirstComma ==
    (commsPc \in AfterParse /\ nbytes > 0 /\ HasComma(buffer))
        => /\ c_tmpThrottle = IF FirstField(buffer) = <<>> THEN 0
                              ELSE strtod(FirstField(buffer)).val
           /\ c_tmpRudder = IF SecondField(buffer) = <<>> THEN 0
                            ELSE strtod(SecondField(buffer)).val

\* C18: the power rail is on or a pulse has been sent only after a battery
\* reading of at least the threshold, and a reading below it leaves main
\* waiting to read again, the process still running.
C18_BatteryGating ==
    /\ [](rail = 1 \/ lastPulse # NoPulse => batt >= BattThreshold)
    /\ [][mainPc = "rc_adc_batt" /\ mainPc' # "rc_adc_batt"
            => batt' >= BattThreshold /\ mainPc' = "rc_servo_init"]_vars
    /\ [][mainPc = "rc_adc_batt" /\ batt' < BattThreshold
            => mainPc' = "rc_adc_batt" /\ exitStatus' = "running" /\ rail' = 0]_vars

\* C18 witness: a reading below the threshold has been taken and main waits
\* to read again, the rail off.
C18_Witness ==
    /\ mainPc = "rc_adc_batt" /\ batt = BattThreshold - 1
    /\ rail = 0 /\ lastPulse = NoPulse /\ exitStatus = "running"

\* C19: every pulse sent, at startup, in a cycle or at shutdown, lies between
\* the minimum and the maximum pulse length of its channel.
C19_PulseInRange ==
    /\ (lastPulse[THROTTLE_SERVO] # 0 =>
          /\ lastPulse[THROTTLE_SERVO] >= THROTTLE_MIN_PULSE_LENGTH_USEC
          /\ lastPulse[THROTTLE_SERVO] <= THROTTLE_MAX_PULSE_LENGTH_USEC)
    /\ (lastPulse[RUDDER_SERVO] # 0 =>
          /\ lastPulse[RUDDER_SERVO] >= RUDDER_MIN_PULSE_LENGTH_USEC
          /\ lastPulse[RUDDER_SERVO] <= RUDDER_MAX_PULSE_LENGTH_USEC)

\* C19 witness: a cycle has run on the out-of-range demand {150,-300}.
C19_Witness ==
    /\ mainPc = "usleep"
    /\ m_tmpThrottle = 150 * Scale /\ m_tmpRudder = 0 - 300 * Scale
    /\ lastPulse[THROTTLE_SERVO] = THROTTLE_MIN_PULSE_LENGTH_USEC
    /\ lastPulse[RUDDER_SERVO] = RUDDER_CENTRE_PULSE_LENGTH_USEC

\* C20: the index nbytes at which the terminator is written after a receive
\* of at least one byte is an index of buffer, 0..19.
C20_TerminatorInBounds ==
    (commsPc = "parse" /\ nbytes > 0) => nbytes \in 0..(BufSize - 1)
====
